---- MODULE Spec2Model ----
(***************************************************************************)
(* A model of the workbench history service                                *)
(* (src/vs/workbench/services/history/browser/history.ts): the navigation  *)
(* stack with its index/lastIndex cursor, the recency history, the list of *)
(* recently closed files, and the editor host that feeds them events.      *)
(*                                                                         *)
(* Array positions are 0-based as in the source: the entry the source      *)
(* calls stack[k] is stack[k + 1] of the sequence here.                    *)
(***************************************************************************)
EXTENDS Integers, Sequences, FiniteSets, TLC

(***************************************************************************)
(* Program constants.                                                      *)
(***************************************************************************)
EDITOR_SELECTION_THRESHOLD == 10
MAX_HISTORY_ITEMS == 200
MAX_STACK_ITEMS == 20
MAX_RECENTLY_CLOSED_EDITORS == 20
MERGE_EVENT_CHANGES_THRESHOLD == 300

(***************************************************************************)
(* Bounds of the exploration.                                              *)
(***************************************************************************)
MaxStackLen == 2    \* longest stack Spec and SpecCursor explore
MaxPending == 1     \* open requests outstanding at the same time in Spec
MaxNavLen == 2      \* longest stack SpecNav explores
MaxOverlap == 2     \* open requests outstanding at the same time in SpecNav
MaxHistStack == 2   \* longest stack SpecHistory explores
MaxDocs == 202      \* files the host opens in SpecHistoryCap
MaxRemoveLen == 3   \* longest stack SpecRemove explores
MaxDisposeLen == 3  \* longest stack SpecDispose explores
MaxAcrossLen == 3   \* longest stack SpecAcross explores

(***************************************************************************)
(* The editor inputs of the host.  An input is [type, id]: a text editor   *)
(* on file number id ("file"), a text editor on no file ("untitled"), an   *)
(* editor that is neither a text editor nor file backed ("other"), such an *)
(* editor without a name ("unnamed"); Null stands for undefined/null.  A   *)
(* resource (URI) is the number of its file.                               *)
(***************************************************************************)
Null == [type |-> "null", id |-> 0]
NoResource == 0
NoSelection == 0
NoEvent == "none"
Lines == {100, 105, 110}

FileInput(n) == [type |-> "file", id |-> n]
UntitledInput(n) == [type |-> "untitled", id |-> n]
OtherInput(n) == [type |-> "other", id |-> n]
UnnamedInput(n) == [type |-> "unnamed", id |-> n]

\* toResource(input, { filter: 'file' }): the file an input is backed by.
toResource(i) == IF i.type = "file" THEN i.id ELSE NoResource

\* getCodeEditor(editor): whether the editor showing the input is a text editor.
getCodeEditor(i) == i.type \in {"file", "untitled"}

\* input.getName()
getName(i) == IF i.type = "unnamed" THEN "" ELSE i.type

\* EditorInput.matches: the host's identity of resolved inputs.
InputMatches(i, j) == i # Null /\ i = j

\* The three shapes of IEditorInput | IResourceInput | FileChangesEvent.
EditorInput(i) ==
    [kind |-> "EditorInput", input |-> i, resource |-> NoResource, deleted |-> {}]
ResourceInput(r) ==
    [kind |-> "IResourceInput", input |-> Null, resource |-> r, deleted |-> {}]
FileChangesEvent(rs) ==
    [kind |-> "FileChangesEvent", input |-> Null, resource |-> NoResource, deleted |-> rs]

Min(m, n) == IF m < n THEN m ELSE n
Abs(n) == IF n < 0 THEN 0 - n ELSE n

(***************************************************************************)
(* Matching of document references.                                        *)
(***************************************************************************)
matchesFile(resource, arg2) ==
    IF arg2.kind = "FileChangesEvent" THEN resource \in arg2.deleted
    ELSE IF arg2.kind = "EditorInput"
    THEN toResource(arg2.input) # NoResource /\ toResource(arg2.input) = resource
    ELSE arg2.resource = resource

matches(arg1, inputB) ==
    IF arg1.kind = "FileChangesEvent"
    THEN IF inputB.kind = "EditorInput" THEN FALSE
         ELSE inputB.resource \in arg1.deleted
    ELSE IF arg1.kind = "EditorInput" /\ inputB.kind = "EditorInput"
    THEN InputMatches(arg1.input, inputB.input)
    ELSE IF arg1.kind = "EditorInput" THEN matchesFile(inputB.resource, arg1)
    ELSE IF inputB.kind = "EditorInput" THEN matchesFile(arg1.resource, inputB)
    ELSE arg1.resource = inputB.resource

preferResourceInput(i) ==
    IF toResource(i) # NoResource THEN ResourceInput(toResource(i)) ELSE EditorInput(i)

sameSelection(selectionA, selectionB) ==
    IF selectionA = NoSelection /\ selectionB = NoSelection THEN TRUE
    ELSE IF selectionA = NoSelection \/ selectionB = NoSelection THEN FALSE
    ELSE selectionA = selectionB

(***************************************************************************)
(* TextEditorState: the input and the start line of the selection.         *)
(***************************************************************************)
NullState == [editorInput |-> Null, selection |-> NoSelection]
TextEditorState(i, sel) == [editorInput |-> i, selection |-> sel]

\* justifiesNewPushState with the threshold itself still ignored.
JustifiesBeyondThreshold(this, other, source) ==
    IF source = "api" THEN TRUE
    ELSE IF ~InputMatches(this.editorInput, other.editorInput) THEN TRUE
    ELSE IF this.selection = NoSelection \/ other.selection = NoSelection THEN TRUE
    ELSE Abs(this.selection - other.selection) > EDITOR_SELECTION_THRESHOLD

\* justifiesNewPushState without the rule for the API source.
JustifiesIgnoringSource(this, other, source) ==
    IF ~InputMatches(this.editorInput, other.editorInput) THEN TRUE
    ELSE IF this.selection = NoSelection \/ other.selection = NoSelection THEN TRUE
    ELSE Abs(this.selection - other.selection) >= EDITOR_SELECTION_THRESHOLD

\* this.justifiesNewPushState(other, event); source is the event's source,
\* NoEvent when the call carries no event.
justifiesNewPushState(this, other, source) ==
    IF source = "api" THEN TRUE
    ELSE IF ~InputMatches(this.editorInput, other.editorInput) THEN TRUE
    ELSE IF this.selection = NoSelection \/ other.selection = NoSelection THEN TRUE
    ELSE IF Abs(this.selection - other.selection) < EDITOR_SELECTION_THRESHOLD
         THEN FALSE
    ELSE TRUE

(***************************************************************************)
(* The state.  The service's fields keep their names; the rest is the      *)
(* environment the service talks to.                                       *)
(***************************************************************************)
VARIABLES
    stack,                   \* IStackEntry[]: [input, selection, age]; age is
                             \* Date.now() - timestamp, kept up to the threshold
    index,
    lastIndex,
    navigatingInStack,
    currentTextEditorState,
    history,                 \* (IEditorInput | IResourceInput)[]
    recentlyClosedFiles,     \* IRecentlyClosedFile[]: [resource, index]
    loaded,
    lastActiveEditor,        \* IEditorIdentifier: [editor, position]
    activeEditorListeners,   \* group positions whose text control is subscribed
    toUnbind,                \* TRUE while the service's listeners are registered
    stackDisposeListeners,   \* inputs whose onDispose removes them from the stack
    historyDisposeListeners, \* inputs whose onDispose removes them from the history
    activeEditor,            \* the host's active editor: [input, position]
    cursor,                  \* start line of the active text control's selection
    storage,                 \* the stored 'history.entries': [valid, entries]
    excluded,                \* resources the resource filter matches
    disposedInputs,          \* inputs the host has disposed
    pendingOpens,            \* open requests of navigate() not yet settled
    lastOpen,                \* the last open request: [input, selection, options]
    errors,                  \* the error the last call reported or threw, if any
    lastCall,                \* the last call of add, of a navigation or of a
                             \* listener: [op, source, from, length, selection,
                             \* history, after], what it found in the state and
                             \* whether it came right after a back() or a call
                             \* of the cursor listener
    limits                   \* how far the behaviour is explored: [stack, pending]

serviceVars == <<stack, index, lastIndex, navigatingInStack, currentTextEditorState,
                 history, recentlyClosedFiles, loaded, lastActiveEditor,
                 activeEditorListeners, toUnbind, stackDisposeListeners,
                 historyDisposeListeners>>
hostVars == <<activeEditor, cursor, storage, excluded, disposedInputs, pendingOpens,
              lastOpen>>
vars == <<serviceVars, hostVars, errors, lastCall, limits>>

NoEditor == [input |-> Null, position |-> 0]
NoIdentifier == [editor |-> Null, position |-> 0]
NoCall == [op |-> "other", source |-> NoEvent, from |-> -1, length |-> 0,
           selection |-> NoSelection, history |-> 0, after |-> "other"]
NoError == errors' = "none"
Other == lastCall' = NoCall
Limits(maxStack, maxPending) == [stack |-> maxStack, pending |-> maxPending]

\* The last conjunct of every action: the step stays within the limits.
Explore ==
    /\ limits' = limits
    /\ Len(stack') <= limits.stack
    /\ pendingOpens' <= limits.pending
NoStorage == [valid |-> TRUE, entries |-> <<>>]
\* A stored value JSON.parse rejects.
Malformed == [valid |-> FALSE, entries |-> <<>>]
OpenOptions(reveal, pinned, tab) ==
    [revealIfOpened |-> reveal, pinned |-> pinned, index |-> tab]
NoOpen == [input |-> EditorInput(Null), selection |-> NoSelection,
           options |-> OpenOptions(FALSE, FALSE, -1)]

(***************************************************************************)
(* The navigation stack as a value [stack, index, lastIndex], and the      *)
(* methods that change it as functions on such values.                     *)
(***************************************************************************)
StackState(st, idx, last) == [stack |-> st, index |-> idx, lastIndex |-> last]

\* this.stack[k], for any integer k: whether the array has an entry there.
HasEntry(st, k) == k >= 0 /\ k < Len(st)

setIndex(S, value) == [S EXCEPT !.lastIndex = S.index, !.index = value]

\* Array.prototype.splice(start, 0, entry): start beyond the length appends.
Splice(st, start, entry) ==
    LET at == Min(start, Len(st))
    IN  SubSeq(st, 1, at) \o <<entry>> \o SubSeq(st, at + 1, Len(st))

\* slice that keeps one entry more.
SliceOneMore(st, end) == SubSeq(st, 1, Min(end + 1, Len(st)))

\* Array.prototype.slice(0, end)
Slice(st, end) == SubSeq(st, 1, Min(end, Len(st)))

\* The stack after dt milliseconds: every entry is dt older.
Elapse(st, dt) ==
    [k \in DOMAIN st |->
        [st[k] EXCEPT !.age = Min(@ + dt, MERGE_EVENT_CHANGES_THRESHOLD)]]

\* Whether addOrReplaceInStack overwrites the entry at index (lines 547-562).
ReplaceDecision(S, i, selection, forceReplace) ==
    /\ HasEntry(S.stack, S.index)
    /\ \/ forceReplace
       \/ LET currentEntry == S.stack[S.index + 1]
          IN  /\ matches(EditorInput(i), currentEntry.input)
              /\ \/ sameSelection(currentEntry.selection, selection)
                 \/ currentEntry.age < MERGE_EVENT_CHANGES_THRESHOLD

\* CheckLimit with the index left where the push put it.
CheckLimitKeepsIndex(S) ==
    IF Len(S.stack) > MAX_STACK_ITEMS THEN [S EXCEPT !.stack = Tail(S.stack)] ELSE S

\* The check for the limit after a push (lines 582-588).
CheckLimit(S) ==
    IF Len(S.stack) > MAX_STACK_ITEMS
    THEN LET shifted == [S EXCEPT !.stack = Tail(S.stack)]
         IN  IF shifted.index > 0 THEN setIndex(shifted, shifted.index - 1)
             ELSE shifted
    ELSE S

addOrReplaceInStack(S, i, selection, forceReplace) ==
    LET replace == ReplaceDecision(S, i, selection, forceReplace)
        entry == [input |-> preferResourceInput(i), selection |-> selection, age |-> 0]
        sliced == IF Len(S.stack) > S.index + 1
                  THEN [S EXCEPT !.stack = Slice(S.stack, S.index + 1)]
                  ELSE S
    IN  IF replace
        THEN [sliced EXCEPT !.stack[S.index + 1] = entry]
        ELSE LET moved == setIndex(sliced, sliced.index + 1)
             IN  CheckLimit([moved EXCEPT !.stack = Splice(sliced.stack, moved.index, entry)])

\* No onDispose subscription at all.
NoSubscription(i) == {}

\* The onDispose subscription addOrReplaceInStack leaves (lines 593-598).
StackSubscription(i) ==
    IF preferResourceInput(i).kind = "EditorInput" THEN {i} ELSE {}

removeFromStack(S, arg1) ==
    LET KeepEntry(e) == ~matches(arg1, e.input)
        kept == SelectSeq(S.stack, KeepEntry)
    IN  StackState(kept, Len(kept) - 1, -1)

(***************************************************************************)
(* The recency history and its persisted form.                             *)
(***************************************************************************)
\* A URI's JSON form and its string form; the absent ones.
NullJSON == [scheme |-> "", path |-> NoResource]
NullString == <<"", NoResource>>
toJSON(resource) == [scheme |-> "file", path |-> resource]
toString(resource) == <<"file://", resource>>

\* URI.revive / URI.parse
revive(json) == json.path
parse(str) == str[2]

\* Serialize that stores a resolved input as a descriptor of no resource.
SerializeEveryInput(hist) ==
    [k \in DOMAIN hist |->
        [resource |-> NullString, resourceJSON |-> toJSON(hist[k].resource)]]

\* The entries save() stores for a history (lines 718-724).
Serialize(hist) ==
    LET IsResource(e) == e.kind # "EditorInput"
        resources == SelectSeq(hist, IsResource)
    IN  [k \in DOMAIN resources |->
            [resource |-> NullString, resourceJSON |-> toJSON(resources[k].resource)]]

\* loadHistory (lines 729-745) on a stored value JSON.parse accepts.
loadHistory(entries) ==
    LET Usable(entry) == entry.resource # NullString \/ entry.resourceJSON # NullJSON
        usable == SelectSeq(entries, Usable)
    IN  [k \in DOMAIN usable |->
            ResourceInput(IF usable[k].resourceJSON # NullJSON
                          THEN revive(usable[k].resourceJSON)
                          ELSE parse(usable[k].resource))]

\* ensureHistoryLoaded throws when the stored value does not parse.
LoadThrows == ~loaded /\ ~storage.valid

\* this.history once ensureHistoryLoaded has returned.
LoadedHistory == IF loaded THEN history ELSE loadHistory(storage.entries)

\* The records of lastCall.
CallFrom(op, source) ==
    [op |-> op, source |-> source, from |-> index, length |-> Len(stack),
     selection |-> currentTextEditorState.selection,
     history |-> Len(LoadedHistory),
     after |-> IF lastCall.op \in {"back", "cursor"} THEN lastCall.op ELSE "other"]
Call(op) == CallFrom(op, NoEvent)
ListenerCall(op) == [NoCall EXCEPT !.op = op, !.history = Len(LoadedHistory)]
StackCall(op) == [NoCall EXCEPT !.op = op, !.from = index, !.length = Len(stack)]

\* include (lines 430-438) under a resource filter that matches `filter`.
includeUnder(filter, input) ==
    IF input.kind = "EditorInput" THEN TRUE ELSE input.resource \notin filter

include(input) == includeUnder(excluded, input)

removeFromHistory(hist, arg1) ==
    LET KeepInput(e) == ~matches(arg1, e)
    IN  SelectSeq(hist, KeepInput)

\* removeExcludedFromHistory that filters nothing.
KeepExcludedInHistory(hist, filter) == hist

removeExcludedFromHistory(hist, filter) ==
    LET KeepIncluded(e) == includeUnder(filter, e)
    IN  SelectSeq(hist, KeepIncluded)

\* Whether handleEditorEventInHistory records the input (line 403).
Recorded(i) == i # Null /\ getName(i) # "" /\ include(EditorInput(i))

\* RecordInHistory without the removal of the existing entry.
RecordWithoutRemoval(hist, i) ==
    LET unshifted == <<preferResourceInput(i)>> \o hist
    IN  IF Len(unshifted) > MAX_HISTORY_ITEMS
        THEN SubSeq(unshifted, 1, Len(unshifted) - 1)
        ELSE unshifted

\* The history after handleEditorEventInHistory has recorded input i (lines 409-418).
RecordInHistory(hist, i) ==
    LET unshifted == <<preferResourceInput(i)>> \o removeFromHistory(hist, EditorInput(i))
    IN  IF Len(unshifted) > MAX_HISTORY_ITEMS
        THEN SubSeq(unshifted, 1, Len(unshifted) - 1)
        ELSE unshifted

\* The onDispose subscription handleEditorEventInHistory leaves (lines 422-427).
HistorySubscription(i) ==
    IF preferResourceInput(i).kind = "EditorInput" THEN {i} ELSE {}

\* removeFromRecentlyClosedFiles that keeps every file.
KeepRecentlyClosedFiles(closed, arg1) == closed

removeFromRecentlyClosedFiles(closed, arg1) ==
    LET KeepFile(e) == ~matchesFile(e.resource, arg1)
    IN  SelectSeq(closed, KeepFile)

(***************************************************************************)
(* The stack's side of an editor event (lines 465-523): the stack value,   *)
(* the current text editor state and the new onDispose subscriptions.      *)
(***************************************************************************)
StackResult(S, state, subs) == [S |-> S, state |-> state, subs |-> subs]

handleTextEditorEvent(S, state, i, selection, source) ==
    LET stateCandidate == TextEditorState(i, selection)
        push == state = NullState \/ justifiesNewPushState(state, stateCandidate, source)
    IN  StackResult(addOrReplaceInStack(S, i, selection, ~push),
                    stateCandidate, StackSubscription(i))

handleNonTextEditorEvent(S, i) ==
    IF HasEntry(S.stack, S.index) /\ matches(EditorInput(i), S.stack[S.index + 1].input)
    THEN StackResult(S, NullState, {})
    ELSE StackResult(addOrReplaceInStack(S, i, NoSelection, FALSE),
                     NullState, StackSubscription(i))

handleEditorEventInStack(S, state, navigating, i, selection, source) ==
    LET control == i # Null /\ getCodeEditor(i)
    IN  IF navigating
        THEN StackResult(S, IF control THEN TextEditorState(i, selection) ELSE NullState, {})
        ELSE IF control THEN handleTextEditorEvent(S, state, i, selection, source)
        ELSE IF i # Null THEN handleNonTextEditorEvent(S, i)
        ELSE StackResult(S, NullState, {})

matchesEditor(identifier, editor) ==
    /\ editor.input # Null
    /\ identifier.position = editor.position
    /\ InputMatches(identifier.editor, editor.input)

(***************************************************************************)
(* Init: the state after construction (lines 99-108, 191-213), in a host   *)
(* with no active editor.                                                  *)
(***************************************************************************)
InitService ==
    /\ stack = <<>>
    /\ index = -1
    /\ lastIndex = -1
    /\ navigatingInStack = FALSE
    /\ currentTextEditorState = NullState
    /\ history = <<>>
    /\ recentlyClosedFiles = <<>>
    /\ loaded = FALSE
    /\ lastActiveEditor = NoIdentifier
    /\ activeEditorListeners = {}
    /\ toUnbind = TRUE
    /\ stackDisposeListeners = {}
    /\ historyDisposeListeners = {}

InitHost ==
    /\ activeEditor = NoEditor
    /\ cursor = NoSelection
    /\ excluded = {}
    /\ disposedInputs = {}
    /\ pendingOpens = 0
    /\ lastOpen = NoOpen
    /\ errors = "none"
    /\ lastCall = NoCall

\* The initial state of a behaviour explored within the limits L.
InitWithin(L) ==
    /\ InitService
    /\ InitHost
    /\ storage = NoStorage
    /\ limits = L

Init == InitWithin(Limits(MaxStackLen, MaxPending))

\* The parts of the service's state a handler may leave alone.
stackVars == <<stack, index, lastIndex>>
historyVars == <<history, loaded>>
editorVars == <<lastActiveEditor, activeEditorListeners>>
disposeVars == <<stackDisposeListeners, historyDisposeListeners>>

SetStack(S) == stack' = S.stack /\ index' = S.index /\ lastIndex' = S.lastIndex

(***************************************************************************)
(* Editor events.                                                          *)
(***************************************************************************)
\* The host makes the editor of input i at group position p the active one
\* (i = Null: no editor is active any more), its text control's selection
\* starting at `line`, dt milliseconds after the last event, and fires
\* onEditorsChanged (lines 110-133, 394-397).
EditorsChanged(i, p, line, dt) ==
    LET editor == [input |-> i, position |-> IF i = Null THEN 0 ELSE p]
        selection == IF editor = activeEditor THEN cursor
                     ELSE IF i # Null /\ getCodeEditor(i) THEN line
                     ELSE NoSelection
        S == StackState(Elapse(stack, dt), index, lastIndex)
        R == handleEditorEventInStack(S, currentTextEditorState, navigatingInStack,
                                      i, selection, NoEvent)
    IN  /\ i \notin disposedInputs
        /\ activeEditor' = editor
        /\ cursor' = selection
        /\ UNCHANGED <<storage, excluded, disposedInputs, pendingOpens, lastOpen>>
        /\ UNCHANGED <<navigatingInStack, recentlyClosedFiles, toUnbind>>
        /\ IF ~toUnbind \/ (lastActiveEditor # NoIdentifier
                             /\ matchesEditor(lastActiveEditor, editor))
           THEN /\ SetStack(S)
                /\ NoError
                /\ Other
                /\ UNCHANGED <<currentTextEditorState, historyVars, editorVars,
                               disposeVars>>
           ELSE /\ lastActiveEditor' = IF i = Null THEN NoIdentifier
                                       ELSE [editor |-> i, position |-> p]
                /\ IF Recorded(i) /\ LoadThrows
                   THEN \* JSON.parse throws out of the handler
                        /\ errors' = "SyntaxError"
                        /\ Other
                        /\ activeEditorListeners' = {}
                        /\ SetStack(S)
                        /\ UNCHANGED <<currentTextEditorState, historyVars,
                                       disposeVars>>
                   ELSE /\ IF Recorded(i)
                           THEN /\ history' = RecordInHistory(LoadedHistory, i)
                                /\ loaded' = TRUE
                                /\ historyDisposeListeners' =
                                       historyDisposeListeners \cup HistorySubscription(i)
                           ELSE UNCHANGED <<historyVars, historyDisposeListeners>>
                        /\ SetStack(R.S)
                        /\ currentTextEditorState' = R.state
                        /\ stackDisposeListeners' = stackDisposeListeners \cup R.subs
                        /\ activeEditorListeners' =
                               IF i # Null /\ getCodeEditor(i) THEN {p} ELSE {}
                        /\ NoError
                        /\ lastCall' = IF Recorded(i) THEN ListenerCall("editors")
                                        ELSE NoCall
        /\ Explore

\* The cursor of the active text editor moves to `line`, by the user or by
\* the API (source), dt milliseconds after the last event; a subscribed
\* control calls handleEditorSelectionChangeEvent (lines 129-131, 390-392).
CursorPositionChanged(line, source, dt) ==
    LET S == StackState(Elapse(stack, dt), index, lastIndex)
        R == handleEditorEventInStack(S, currentTextEditorState, navigatingInStack,
                                      activeEditor.input, line, source)
    IN  /\ activeEditor.input # Null
        /\ getCodeEditor(activeEditor.input)
        /\ cursor' = line
        /\ UNCHANGED <<activeEditor, storage, excluded, disposedInputs, pendingOpens,
                       lastOpen>>
        /\ UNCHANGED <<navigatingInStack, historyVars, recentlyClosedFiles,
                       editorVars, toUnbind, historyDisposeListeners>>
        /\ NoError
        /\ IF activeEditor.position \in activeEditorListeners
           THEN /\ SetStack(R.S)
                /\ currentTextEditorState' = R.state
                /\ stackDisposeListeners' = stackDisposeListeners \cup R.subs
                /\ lastCall' = CallFrom("cursor", source)
           ELSE /\ SetStack(S)
                /\ UNCHANGED <<currentTextEditorState, stackDisposeListeners>>
                /\ Other
        /\ Explore

\* The public add(input, selection) (lines 525-529), dt milliseconds after
\* the last event.
Add(i, selection, dt) ==
    LET S == StackState(Elapse(stack, dt), index, lastIndex)
    IN  /\ i \notin disposedInputs
        /\ IF navigatingInStack
           THEN SetStack(S) /\ UNCHANGED stackDisposeListeners
           ELSE /\ SetStack(addOrReplaceInStack(S, i, selection, FALSE))
                /\ stackDisposeListeners' =
                       stackDisposeListeners \cup StackSubscription(i)
        /\ UNCHANGED <<navigatingInStack, currentTextEditorState, historyVars,
                       recentlyClosedFiles, editorVars, toUnbind,
                       historyDisposeListeners>>
        /\ UNCHANGED hostVars
        /\ NoError
        /\ lastCall' = Call("add")
        /\ Explore

(***************************************************************************)
(* Navigation in the stack.  A move is the stack value a call leaves,      *)
(* whether it issued an open request, the request, and whether it threw.   *)
(***************************************************************************)
Move(S, issued, request, threw) ==
    [S |-> S, issued |-> issued, request |-> request, threw |-> threw]

\* An open request that never carries the entry's selection.
OpenRequestWithoutSelection(entry, acrossEditors) ==
    [input |-> entry.input, selection |-> NoSelection,
     options |-> OpenOptions(TRUE, FALSE, -1)]

\* The open request navigate() builds for an entry (lines 360-380).
OpenRequest(entry, acrossEditors) ==
    [input |-> entry.input,
     selection |-> IF entry.selection # NoSelection /\ ~acrossEditors
                   THEN entry.selection ELSE NoSelection,
     options |-> OpenOptions(TRUE, FALSE, -1)]

\* navigate(acrossEditors) (lines 359-388): with no entry at the index,
\* reading entry.selection throws before anything else is done.
navigate(S, acrossEditors) ==
    IF HasEntry(S.stack, S.index)
    THEN Move(S, TRUE, OpenRequest(S.stack[S.index + 1], acrossEditors), FALSE)
    ELSE Move(S, FALSE, NoOpen, TRUE)

\* The positions after (dir = 1) or before (dir = -1) the index whose entry
\* does not match the current entry: where the loops of lines 294-304 and
\* 336-346 may stop; they stop at the nearest.
AcrossTargets(S, dir) ==
    {k \in 0 .. Len(S.stack) - 1 :
        /\ IF dir = 1 THEN k > S.index ELSE k < S.index
        /\ ~matches(S.stack[S.index + 1].input, S.stack[k + 1].input)}

\* The position the loops would stop at if they took the farthest.
Farthest(dir, targets) ==
    CHOOSE k \in targets : \A m \in targets : IF dir = 1 THEN k >= m ELSE k <= m

Nearest(dir, targets) ==
    CHOOSE k \in targets : \A m \in targets : IF dir = 1 THEN k <= m ELSE k >= m

\* doForwardAcrossEditors / doBackAcrossEditors: with no entry at the index
\* (currentEntry undefined) the first comparison throws.
doAcrossEditors(S, dir) ==
    IF ~HasEntry(S.stack, S.index) THEN Move(S, FALSE, NoOpen, TRUE)
    ELSE IF AcrossTargets(S, dir) = {} THEN Move(S, FALSE, NoOpen, FALSE)
    ELSE navigate(setIndex(S, Nearest(dir, AcrossTargets(S, dir))), TRUE)

\* forward(acrossEditors) (lines 274-305)
forward(S, acrossEditors) ==
    IF Len(S.stack) > S.index + 1
    THEN IF acrossEditors THEN doAcrossEditors(S, 1)
         ELSE navigate(setIndex(S, S.index + 1), FALSE)
    ELSE Move(S, FALSE, NoOpen, FALSE)

\* back(acrossEditors) (lines 307-347)
back(S, acrossEditors) ==
    IF S.index > 0
    THEN IF acrossEditors THEN doAcrossEditors(S, -1)
         ELSE navigate(setIndex(S, S.index - 1), FALSE)
    ELSE Move(S, FALSE, NoOpen, FALSE)

\* last() (lines 317-324)
last(S) ==
    IF S.lastIndex = -1 THEN back(S, FALSE)
    ELSE navigate(setIndex(S, S.lastIndex), FALSE)

\* A navigation call that makes move M.
Navigation(op, M) ==
    /\ SetStack(M.S)
    /\ navigatingInStack' = (M.issued \/ navigatingInStack)
    /\ pendingOpens' = IF M.issued THEN pendingOpens + 1 ELSE pendingOpens
    /\ lastOpen' = IF M.issued THEN M.request ELSE lastOpen
    /\ errors' = IF M.threw THEN "TypeError" ELSE "none"
    /\ lastCall' = Call(op)
    /\ UNCHANGED <<currentTextEditorState, historyVars, recentlyClosedFiles,
                   editorVars, toUnbind, disposeVars>>
    /\ UNCHANGED <<activeEditor, cursor, storage, excluded, disposedInputs>>
    /\ Explore

CurrentStack == StackState(stack, index, lastIndex)

Forward(acrossEditors) ==
    Navigation(IF acrossEditors THEN "forwardAcross" ELSE "forward",
               forward(CurrentStack, acrossEditors))

Back(acrossEditors) ==
    Navigation(IF acrossEditors THEN "backAcross" ELSE "back",
               back(CurrentStack, acrossEditors))

Last == Navigation("last", last(CurrentStack))

\* The settling of an open request that leaves navigatingInStack set.
SettleKeepsNavigating(error) ==
    /\ pendingOpens > 0
    /\ pendingOpens' = pendingOpens - 1
    /\ lastOpen' = IF pendingOpens = 1 THEN NoOpen ELSE lastOpen
    /\ errors' = error
    /\ Other
    /\ UNCHANGED <<stackVars, navigatingInStack, currentTextEditorState, historyVars,
                   recentlyClosedFiles, editorVars, toUnbind, disposeVars>>
    /\ UNCHANGED <<activeEditor, cursor, storage, excluded, disposedInputs>>
    /\ Explore

\* The settling of an open request that clears navigatingInStack in the
\* completion callback only.
SettleClearsOnSuccess(error) ==
    /\ pendingOpens > 0
    /\ pendingOpens' = pendingOpens - 1
    /\ navigatingInStack' = IF error = "none" THEN FALSE ELSE navigatingInStack
    /\ lastOpen' = IF pendingOpens = 1 THEN NoOpen ELSE lastOpen
    /\ errors' = error
    /\ Other
    /\ UNCHANGED <<stackVars, currentTextEditorState, historyVars,
                   recentlyClosedFiles, editorVars, toUnbind, disposeVars>>
    /\ UNCHANGED <<activeEditor, cursor, storage, excluded, disposedInputs>>
    /\ Explore

\* The open request of a navigation is settled: it completes (lines 382-383)
\* or fails (lines 384-387).
Settle(error) ==
    /\ pendingOpens > 0
    /\ pendingOpens' = pendingOpens - 1
    /\ navigatingInStack' = FALSE
    /\ lastOpen' = IF pendingOpens = 1 THEN NoOpen ELSE lastOpen
    /\ errors' = error
    /\ Other
    /\ UNCHANGED <<stackVars, currentTextEditorState, historyVars,
                   recentlyClosedFiles, editorVars, toUnbind, disposeVars>>
    /\ UNCHANGED <<activeEditor, cursor, storage, excluded, disposedInputs>>
    /\ Explore

OpenDone == Settle("none")

OpenFailed == Settle("onUnexpectedError")

(***************************************************************************)
(* clear, remove, disposal.                                                *)
(***************************************************************************)
\* What a call leaves when ensureHistoryLoaded throws at its start.
ThrowsOnLoad ==
    /\ errors' = "SyntaxError"
    /\ Other
    /\ UNCHANGED serviceVars
    /\ UNCHANGED hostVars
    /\ Explore

\* clear() that forgets the closed files and lastIndex.
ClearStackAndHistory ==
    IF LoadThrows THEN ThrowsOnLoad
    ELSE /\ loaded' = TRUE
         /\ index' = -1
         /\ stack' = <<>>
         /\ history' = <<>>
         /\ UNCHANGED <<lastIndex, recentlyClosedFiles, navigatingInStack,
                        currentTextEditorState, editorVars, toUnbind, disposeVars>>
         /\ UNCHANGED hostVars
         /\ NoError
         /\ lastCall' = StackCall("clear")
         /\ Explore

\* clear() (lines 349-357)
Clear ==
    IF LoadThrows THEN ThrowsOnLoad
    ELSE /\ loaded' = TRUE
         /\ index' = -1
         /\ lastIndex' = -1
         /\ stack' = <<>>
         /\ history' = <<>>
         /\ recentlyClosedFiles' = <<>>
         /\ UNCHANGED <<navigatingInStack, currentTextEditorState, editorVars,
                        toUnbind, disposeVars>>
         /\ UNCHANGED hostVars
         /\ NoError
         /\ lastCall' = StackCall("clear")
         /\ Explore

\* remove(arg1) (lines 444-451); removeFromRecentlyOpened only tells the
\* windows service.
Remove(arg1) ==
    IF LoadThrows THEN ThrowsOnLoad
    ELSE /\ loaded' = TRUE
         /\ history' = removeFromHistory(LoadedHistory, arg1)
         /\ SetStack(removeFromStack(CurrentStack, arg1))
         /\ recentlyClosedFiles' =
                removeFromRecentlyClosedFiles(recentlyClosedFiles, arg1)
         /\ UNCHANGED <<navigatingInStack, currentTextEditorState, editorVars,
                        toUnbind, disposeVars>>
         /\ UNCHANGED hostVars
         /\ NoError
         /\ lastCall' = StackCall("remove")
         /\ Explore

\* The file service reports changes that delete the files in `deleted`
\* (lines 230, 234-238).
FileChanges(deleted) ==
    /\ toUnbind
    /\ IF deleted # {} THEN Remove(FileChangesEvent(deleted))
       ELSE UNCHANGED <<serviceVars, hostVars>> /\ NoError /\ Other /\ Explore

\* The group service reports that opening input i failed (line 228).
EditorOpenFail(i) ==
    /\ toUnbind
    /\ i \notin disposedInputs
    /\ Remove(EditorInput(i))

\* The host disposes input i, which is not the active one: the onDispose
\* listeners of lines 422-427 and 593-598 run, once.
DisposeInput(i) ==
    /\ i \notin disposedInputs
    /\ i # activeEditor.input
    /\ disposedInputs' = disposedInputs \cup {i}
    /\ IF i \in stackDisposeListeners
       THEN SetStack(removeFromStack(CurrentStack, EditorInput(i)))
       ELSE UNCHANGED stackVars
    /\ IF i \in historyDisposeListeners
       THEN history' = removeFromHistory(history, EditorInput(i))
       ELSE UNCHANGED history
    /\ stackDisposeListeners' = stackDisposeListeners \ {i}
    /\ historyDisposeListeners' = historyDisposeListeners \ {i}
    /\ UNCHANGED <<navigatingInStack, currentTextEditorState, recentlyClosedFiles,
                   loaded, editorVars, toUnbind>>
    /\ UNCHANGED <<activeEditor, cursor, storage, excluded, pendingOpens, lastOpen>>
    /\ NoError
    /\ lastCall' = StackCall("dispose")
    /\ Explore

\* dispose() of the service (lines 153-155)
Dispose ==
    /\ toUnbind
    /\ toUnbind' = FALSE
    /\ UNCHANGED <<stackVars, navigatingInStack, currentTextEditorState,
                   historyVars, recentlyClosedFiles, editorVars, disposeVars>>
    /\ UNCHANGED hostVars
    /\ NoError
    /\ Other
    /\ Explore

(***************************************************************************)
(* Exclusion, persistence, recently closed files.                          *)
(***************************************************************************)
\* The resource filter's expression changes so that it matches `filter`
\* (lines 231, 440-442, 453-457).
ExcludesChange(filter) ==
    /\ filter # excluded
    /\ excluded' = filter
    /\ UNCHANGED <<stackVars, navigatingInStack, currentTextEditorState,
                   recentlyClosedFiles, editorVars, toUnbind, disposeVars>>
    /\ UNCHANGED <<activeEditor, cursor, storage, disposedInputs, pendingOpens,
                   lastOpen>>
    /\ IF ~toUnbind THEN UNCHANGED historyVars /\ NoError /\ Other
       ELSE IF LoadThrows
       THEN errors' = "SyntaxError" /\ UNCHANGED historyVars /\ Other
       ELSE /\ history' = removeExcludedFromHistory(LoadedHistory, filter)
            /\ loaded' = TRUE
            /\ NoError
            /\ lastCall' = ListenerCall("excludes")
    /\ Explore

\* getHistory() (lines 699-711)
GetHistory ==
    IF LoadThrows THEN ThrowsOnLoad
    ELSE /\ history' = LoadedHistory
         /\ loaded' = TRUE
         /\ UNCHANGED <<stackVars, navigatingInStack, currentTextEditorState,
                        recentlyClosedFiles, editorVars, toUnbind, disposeVars>>
         /\ UNCHANGED hostVars
         /\ NoError
         /\ lastCall' = ListenerCall("getHistory")
         /\ Explore

\* The shutdown event: save() (lines 227, 713-727); this.history is
\* undefined until the history has been loaded.
Shutdown ==
    /\ toUnbind
    /\ storage' = IF loaded THEN [valid |-> TRUE, entries |-> Serialize(history)]
                  ELSE storage
    /\ UNCHANGED serviceVars
    /\ UNCHANGED <<activeEditor, cursor, excluded, disposedInputs, pendingOpens,
                   lastOpen>>
    /\ NoError
    /\ lastCall' = IF loaded THEN [NoCall EXCEPT !.op = "save", !.history = Len(history)]
                   ELSE NoCall
    /\ Explore

\* The window is closed and opened again: a new service is constructed
\* (lines 99-108, 191-213) in a host with no active editor, over the storage
\* and the configuration the old one has left.
Restart ==
    /\ stack' = <<>>
    /\ index' = -1
    /\ lastIndex' = -1
    /\ navigatingInStack' = FALSE
    /\ currentTextEditorState' = NullState
    /\ history' = <<>>
    /\ recentlyClosedFiles' = <<>>
    /\ loaded' = FALSE
    /\ lastActiveEditor' = NoIdentifier
    /\ activeEditorListeners' = {}
    /\ toUnbind' = TRUE
    /\ stackDisposeListeners' = {}
    /\ historyDisposeListeners' = {}
    /\ activeEditor' = NoEditor
    /\ cursor' = NoSelection
    /\ disposedInputs' = {}
    /\ pendingOpens' = 0
    /\ lastOpen' = NoOpen
    /\ UNCHANGED <<storage, excluded>>
    /\ NoError
    /\ Other
    /\ Explore

\* The stacks model reports that the editor of input i, at tab `tab`, was
\* closed (lines 229, 240-257).
EditorClosed(i, pinned, tab) ==
    LET removed == removeFromRecentlyClosedFiles(recentlyClosedFiles, EditorInput(i))
        pushed == Append(removed, [resource |-> toResource(i), index |-> tab])
    IN  /\ toUnbind
        /\ recentlyClosedFiles' =
               IF pinned /\ toResource(i) # NoResource
               THEN IF Len(pushed) > MAX_RECENTLY_CLOSED_EDITORS
                    THEN Tail(pushed) ELSE pushed
               ELSE recentlyClosedFiles
        /\ UNCHANGED <<stackVars, navigatingInStack, currentTextEditorState,
                       historyVars, editorVars, toUnbind, disposeVars>>
        /\ UNCHANGED hostVars
        /\ NoError
        /\ Other
        /\ Explore

\* The pops that stop at the first file popped, opened or not.
PopOnce(closed, opened) ==
    IF closed = <<>> THEN [closed |-> <<>>, found |-> FALSE, file |-> NoResource, index |-> 0]
    ELSE [closed |-> SubSeq(closed, 1, Len(closed) - 1), found |-> TRUE,
          file |-> closed[Len(closed)].resource, index |-> closed[Len(closed)].index]

RECURSIVE PopUntilNotOpened(_, _)
\* The pops of reopenLastClosedEditor (lines 264-267) when the active group
\* holds the files in `opened`: what is left and the file found, if any.
PopUntilNotOpened(closed, opened) ==
    IF closed = <<>> THEN [closed |-> <<>>, found |-> FALSE, file |-> NoResource, index |-> 0]
    ELSE LET lastClosedFile == closed[Len(closed)]
             rest == SubSeq(closed, 1, Len(closed) - 1)
         IN  IF lastClosedFile.resource \in opened
             THEN PopUntilNotOpened(rest, opened)
             ELSE [closed |-> rest, found |-> TRUE, file |-> lastClosedFile.resource,
                   index |-> lastClosedFile.index]

\* reopenLastClosedEditor() (lines 259-272)
ReopenLastClosedEditor(opened) ==
    IF LoadThrows THEN ThrowsOnLoad
    ELSE LET P == PopUntilNotOpened(recentlyClosedFiles, opened)
         IN  /\ history' = LoadedHistory
             /\ loaded' = TRUE
             /\ recentlyClosedFiles' = P.closed
             /\ lastOpen' = IF P.found
                            THEN [input |-> ResourceInput(P.file),
                                  selection |-> NoSelection,
                                  options |-> OpenOptions(FALSE, TRUE, P.index)]
                            ELSE lastOpen
             /\ UNCHANGED <<stackVars, navigatingInStack, currentTextEditorState,
                            editorVars, toUnbind, disposeVars>>
             /\ UNCHANGED <<activeEditor, cursor, storage, excluded, disposedInputs,
                            pendingOpens>>
             /\ NoError
             /\ lastCall' = [NoCall EXCEPT !.op = IF P.found THEN "reopen" ELSE "reopenNone",
                                           !.length = Len(recentlyClosedFiles)]
             /\ Explore

(***************************************************************************)
(* Spec: the navigation stack under editor events, navigation, removal and *)
(* clear; events are at least MERGE_EVENT_CHANGES_THRESHOLD apart.         *)
(***************************************************************************)
StackInputs == {FileInput(1), FileInput(2)}
Resources == {1, 2}
Positions == {0}
StackLines == {100, 130}
Slow == {MERGE_EVENT_CHANGES_THRESHOLD}

Next ==
    \/ \E i \in StackInputs, p \in Positions, line \in StackLines, dt \in Slow :
          EditorsChanged(i, p, line, dt)
    \/ \E line \in StackLines, dt \in Slow :
          CursorPositionChanged(line, "keyboard", dt)
    \/ \E across \in BOOLEAN : Back(across)
    \/ \E across \in BOOLEAN : Forward(across)
    \/ Last
    \/ OpenDone
    \/ OpenFailed
    \/ \E r \in Resources : FileChanges({r})
    \/ Clear


Spec == Init /\ [][Next]_vars

(***************************************************************************)
(* SpecNav: navigation calls that overlap.                                 *)
(***************************************************************************)
InitNav == InitWithin(Limits(MaxNavLen, MaxOverlap))

NextNav ==
    \/ \E i \in StackInputs, p \in Positions, dt \in Slow :
          EditorsChanged(i, p, 100, dt)
    \/ \E line \in StackLines, dt \in Slow :
          CursorPositionChanged(line, "keyboard", dt)
    \/ \E across \in BOOLEAN : Back(across)
    \/ \E across \in BOOLEAN : Forward(across)
    \/ Last
    \/ OpenDone
    \/ OpenFailed

SpecNav == InitNav /\ [][NextNav]_vars

(***************************************************************************)
(* SpecCap: calls of add, with back and forward between them, up to the    *)
(* capacity of the stack and beyond.                                       *)
(***************************************************************************)
InitCap == InitWithin(Limits(MAX_STACK_ITEMS, MaxPending))

NextCap ==
    \/ \E i \in StackInputs, dt \in Slow : Add(i, 100, dt)
    \/ Back(FALSE)
    \/ Forward(FALSE)
    \/ OpenDone

SpecCap == InitCap /\ [][NextCap]_vars

(***************************************************************************)
(* SpecCursor: cursor events of both sources, slow and fast, in one text   *)
(* editor.                                                                 *)
(***************************************************************************)
Sources == {"api", "keyboard"}
Delays == {0, MERGE_EVENT_CHANGES_THRESHOLD - 1, MERGE_EVENT_CHANGES_THRESHOLD}

NextCursor ==
    \/ \E p \in Positions, dt \in Slow :
          EditorsChanged(FileInput(1), p, 100, dt)
    \/ \E line \in Lines, source \in Sources, dt \in Delays :
          CursorPositionChanged(line, source, dt)
    \/ Back(FALSE)
    \/ OpenDone
    \/ Clear
    \/ FileChanges({1})

SpecCursor == Init /\ [][NextCursor]_vars

(***************************************************************************)
(* SpecHistory: the recency history under activations, changes of the      *)
(* exclusions, deletions, disposal of inputs, clear, getHistory and        *)
(* shutdown, starting from what an earlier session has stored.             *)
(***************************************************************************)
HistoryInputs == {FileInput(1), FileInput(2), OtherInput(1), UnnamedInput(1), Null}
Disposable == {OtherInput(1)}

\* What save() has stored at the end of an earlier session.
Stored(hist) == [valid |-> TRUE, entries |-> Serialize(hist)]
StoredHistories ==
    {Stored(<<>>), Stored(<<ResourceInput(1)>>),
     Stored(<<ResourceInput(2), ResourceInput(1)>>)}

InitHistory ==
    /\ InitService
    /\ InitHost
    /\ storage \in StoredHistories
    /\ limits = Limits(MaxHistStack, MaxPending)

NextHistory ==
    \/ \E i \in HistoryInputs, p \in Positions, dt \in Slow :
          EditorsChanged(i, p, 100, dt)
    \/ \E filter \in SUBSET Resources : ExcludesChange(filter)
    \/ \E r \in Resources : FileChanges({r})
    \/ \E i \in Disposable : DisposeInput(i)
    \/ GetHistory
    \/ Shutdown
    \/ Clear

SpecHistory == InitHistory /\ [][NextHistory]_vars

(***************************************************************************)
(* SpecHistoryCap: the host opens files one after the other, more than the *)
(* history holds, and now and then goes back to the file that is the       *)
(* oldest of the history; the earlier session has stored nothing or a full *)
(* history.                                                                *)
(***************************************************************************)
FullHistory == [k \in 1 .. MAX_HISTORY_ITEMS |-> ResourceInput(MAX_HISTORY_ITEMS + 1 - k)]

InitHistoryCap ==
    /\ InitService
    /\ InitHost
    /\ storage \in {NoStorage, Stored(FullHistory)}
    /\ limits = Limits(MAX_STACK_ITEMS, MaxPending)

\* The history holds files in the order the host has opened them.
InOrderOfOpening(hist) ==
    \A k \in DOMAIN hist : hist[k].resource = hist[1].resource + 1 - k

\* The file the host has opened last: a file opened again is at the front,
\* right before it.
NewestFile(hist) ==
    IF hist = <<>> THEN 0
    ELSE IF Len(hist) = 1 \/ hist[1].resource > hist[2].resource THEN hist[1].resource
    ELSE hist[2].resource

NextHistoryCap ==
    \/ /\ NewestFile(LoadedHistory) < MaxDocs
       /\ \E dt \in Slow :
             EditorsChanged(FileInput(NewestFile(LoadedHistory) + 1), 0, 100, dt)
    \/ /\ LoadedHistory # <<>>
       /\ InOrderOfOpening(LoadedHistory)
       /\ \E dt \in Slow :
             EditorsChanged(FileInput(LoadedHistory[Len(LoadedHistory)].resource),
                            0, 100, dt)

SpecHistoryCap == InitHistoryCap /\ [][NextHistoryCap]_vars

(***************************************************************************)
(* SpecRemove: remove, by the caller and from deletions of files, and      *)
(* clear, on a stack, a history and closed files that editor events have   *)
(* filled; the stored history is empty or does not parse.                  *)
(***************************************************************************)
RemoveInputs == {FileInput(1), FileInput(2), OtherInput(1)}

\* What remove is called with.
RemoveArgs ==
    {EditorInput(i) : i \in RemoveInputs} \cup {ResourceInput(r) : r \in Resources}
DeletionEvents == {FileChangesEvent(d) : d \in (SUBSET Resources) \ {{}}}

InitRemove ==
    /\ InitService
    /\ InitHost
    /\ storage \in {NoStorage, Malformed}
    /\ limits = Limits(MaxRemoveLen, MaxPending)

NextRemove ==
    \/ \E i \in RemoveInputs, p \in Positions, dt \in Slow :
          EditorsChanged(i, p, 100, dt)
    \/ \E i \in StackInputs, pinned \in BOOLEAN :
          EditorClosed(i, pinned, 0)
    \/ \E arg1 \in RemoveArgs : Remove(arg1)
    \/ \E d \in SUBSET Resources : FileChanges(d)
    \/ GetHistory
    \/ Clear

SpecRemove == InitRemove /\ [][NextRemove]_vars

(***************************************************************************)
(* SpecClear: clear and getHistory at any moment of a session with         *)
(* activations, back(), forward(), closed editors and a stored history     *)
(* that is empty, holds a file, or does not parse.                         *)
(***************************************************************************)
InitClear ==
    /\ InitService
    /\ InitHost
    /\ storage \in {NoStorage, Stored(<<ResourceInput(1)>>), Malformed}
    /\ limits = Limits(MaxStackLen, MaxPending)

NextClear ==
    \/ \E i \in RemoveInputs, p \in Positions, dt \in Slow :
          EditorsChanged(i, p, 100, dt)
    \/ Back(FALSE)
    \/ Forward(FALSE)
    \/ OpenDone
    \/ \E i \in StackInputs : EditorClosed(i, TRUE, 0)
    \/ GetHistory
    \/ Clear

SpecClear == InitClear /\ [][NextClear]_vars

(***************************************************************************)
(* SpecClosed: pinned and unpinned editors are closed and the last closed  *)
(* one is reopened while the active group holds some of the files.         *)
(***************************************************************************)
ClosedInputs == {FileInput(1), FileInput(2), FileInput(3), OtherInput(1)}
ClosedResources == {1, 2, 3}
Tabs == {0, 1}

NextClosed ==
    \/ \E i \in ClosedInputs, pinned \in BOOLEAN, tab \in Tabs :
          EditorClosed(i, pinned, tab)
    \/ \E opened \in SUBSET ClosedResources : ReopenLastClosedEditor(opened)
    \/ \E r \in ClosedResources : FileChanges({r})

SpecClosed == InitRemove /\ [][NextClosed]_vars

(***************************************************************************)
(* SpecPersist: sessions one after the other; each records activations,    *)
(* saves at shutdown, and the next one loads what is stored.  The first    *)
(* session finds nothing stored, or a value that does not parse.           *)
(***************************************************************************)
PersistInputs == {FileInput(1), FileInput(2), OtherInput(1)}

NextPersist ==
    \/ \E i \in PersistInputs, p \in Positions, dt \in Slow :
          EditorsChanged(i, p, 100, dt)
    \/ GetHistory
    \/ Shutdown
    \/ Restart

SpecPersist == InitRemove /\ [][NextPersist]_vars

(***************************************************************************)
(* SpecDispose: the host disposes resolved inputs the stack and the        *)
(* history hold, among activations and back().                             *)
(***************************************************************************)
DisposeInputs == {FileInput(1), UntitledInput(1), OtherInput(1)}
Resolved == {UntitledInput(1), OtherInput(1)}

InitDispose == InitWithin(Limits(MaxDisposeLen, MaxPending))

NextDispose ==
    \/ \E i \in DisposeInputs, p \in Positions, dt \in Slow :
          EditorsChanged(i, p, 100, dt)
    \/ Back(FALSE)
    \/ OpenDone
    \/ \E i \in Resolved : DisposeInput(i)

SpecDispose == InitDispose /\ [][NextDispose]_vars

(***************************************************************************)
(* SpecLifecycle: activations and cursor events before and after the       *)
(* service is disposed.                                                    *)
(***************************************************************************)
NextLifecycle ==
    \/ \E i \in DisposeInputs, p \in Positions, dt \in Slow :
          EditorsChanged(i, p, 100, dt)
    \/ \E line \in StackLines, dt \in Slow :
          CursorPositionChanged(line, "keyboard", dt)
    \/ Dispose

SpecLifecycle == Init /\ [][NextLifecycle]_vars

(***************************************************************************)
(* SpecAcross: back and forward across editors, and last, in stacks with   *)
(* runs of entries of the same document that calls of add have built.      *)
(***************************************************************************)
InitAcross == InitWithin(Limits(MaxAcrossLen, MaxPending))

NextAcross ==
    \/ \E i \in StackInputs, line \in StackLines, dt \in Slow : Add(i, line, dt)
    \/ Back(TRUE)
    \/ Forward(TRUE)
    \/ Last
    \/ OpenDone

SpecAcross == InitAcross /\ [][NextAcross]_vars

(***************************************************************************)
(* SpecRecording: calls of add between navigations whose open requests     *)
(* complete or fail.  SpecRecordingFair adds that an outstanding open      *)
(* request is eventually settled: the promise of openEditor completes or   *)
(* fails, and one of the two callbacks of lines 382-387 runs.              *)
(***************************************************************************)
InitRecording == InitWithin(Limits(MaxStackLen, MaxOverlap))

NextRecording ==
    \/ \E i \in StackInputs, dt \in Slow : Add(i, 100, dt)
    \/ Back(FALSE)
    \/ Forward(FALSE)
    \/ Last
    \/ OpenDone
    \/ OpenFailed

SpecRecording == InitRecording /\ [][NextRecording]_vars

SpecRecordingFair == SpecRecording /\ WF_vars(OpenDone \/ OpenFailed)

(***************************************************************************)
(* The claims.                                                             *)
(***************************************************************************)
\* C1: in every reachable state, if the stack is non-empty then
\* 0 <= index < stack.length, and index = -1 if and only if the stack is
\* empty.
C1_IndexInvariant ==
    /\ stack # <<>> => (0 <= index /\ index < Len(stack))
    /\ index = -1 <=> stack = <<>>

\* The entry add(i, selection) writes.
NewEntry(i, selection) ==
    [input |-> preferResourceInput(i), selection |-> selection, age |-> 0]

\* add(i, selection) in the current state pushes: it is not ignored and the
\* merge decision is not replace.
Pushes(i, selection, dt) ==
    /\ ~navigatingInStack
    /\ ~ReplaceDecision(StackState(Elapse(stack, dt), index, lastIndex),
                        i, selection, FALSE)

\* C2: over every sequence of add calls (back and forward between them), the
\* stack never holds more than MAX_STACK_ITEMS entries and index is a
\* position of the stack; a push onto a full stack evicts the entry at
\* position 0 and index designates the entry pushed.
C2_Capacity ==
    [][/\ Len(stack') <= MAX_STACK_ITEMS
       /\ stack' # <<>> => (0 <= index' /\ index' < Len(stack'))
       /\ \A i \in StackInputs, dt \in Slow :
             (/\ Add(i, 100, dt)
              /\ Pushes(i, 100, dt)
              /\ Len(stack) = MAX_STACK_ITEMS
              /\ index = Len(stack) - 1)
             => /\ stack' = Tail(Elapse(stack, dt)) \o <<NewEntry(i, 100)>>
                /\ stack'[index' + 1] = NewEntry(i, 100)]_vars

\* An add has pushed onto a full stack: the eviction has moved the index
\* back from MAX_STACK_ITEMS.
C2_Witness ==
    /\ lastCall.op = "add"
    /\ lastCall.length = MAX_STACK_ITEMS
    /\ lastCall.from = MAX_STACK_ITEMS - 1
    /\ lastIndex = MAX_STACK_ITEMS
    /\ index = MAX_STACK_ITEMS - 1
    /\ Len(stack) = MAX_STACK_ITEMS

\* C3: when add pushes while entries follow the one at index, the entries
\* after index are discarded, the new entry is inserted right after the old
\* index and index advances by one.
C3_PushTruncates ==
    [][\A i \in StackInputs, dt \in Slow :
          (/\ Add(i, 100, dt)
           /\ Pushes(i, 100, dt)
           /\ 0 <= index
           /\ index + 1 < Len(stack))
          => /\ stack' = SubSeq(Elapse(stack, dt), 1, index + 1) \o <<NewEntry(i, 100)>>
             /\ index' = index + 1]_vars

\* An add has pushed in the middle of a stack of three: [A, B, C] with
\* index 1 has become [A, B, D] with index 2.
C3_Witness ==
    /\ lastCall.op = "add"
    /\ lastCall.length = 3
    /\ lastCall.from = 1
    /\ ~navigatingInStack
    /\ Len(stack) = 3
    /\ index = 2
    /\ stack[3].age = 0

\* C4: back() followed immediately by forward() returns index to the value
\* it had before back(), and the open request forward() issues is for the
\* document and the selection of the entry at that index.
C4_BackThenForward ==
    [][(lastCall.op = "back" /\ lastCall'.op = "forward")
       => /\ index' = lastCall.from
          /\ pendingOpens' = pendingOpens + 1
             => /\ HasEntry(stack, lastCall.from)
                /\ lastOpen'.input = stack[lastCall.from + 1].input
                /\ lastOpen'.selection = stack[lastCall.from + 1].selection]_vars

\* C4, amended: when index is above 0 and designates an entry, back()
\* moves index one down, and forward() right after it returns index to the
\* value it had and issues an open request for the document and the
\* selection of the entry there.
C4_BackThenForwardFromEntry ==
    [][(/\ lastCall.op = "back"
        /\ lastCall'.op = "forward"
        /\ lastCall.from > 0
        /\ HasEntry(stack, lastCall.from))
       => /\ index = lastCall.from - 1
          /\ index' = lastCall.from
          /\ pendingOpens' = pendingOpens + 1
          /\ lastOpen'.input = stack[lastCall.from + 1].input
          /\ lastOpen'.selection = stack[lastCall.from + 1].selection]_vars

\* forward() has run right after a back() that moved the index: both open
\* requests are outstanding and the index is where it was.
C4_Witness ==
    /\ lastCall.op = "forward"
    /\ lastCall.after = "back"
    /\ lastCall.from > -1
    /\ index = lastCall.from + 1
    /\ lastIndex = lastCall.from
    /\ pendingOpens = 2
    /\ lastOpen.input = stack[index + 1].input
    /\ lastOpen.selection = stack[index + 1].selection

\* The cursor listener of the active text editor runs outside a navigation.
Listening ==
    /\ activeEditor.input # Null
    /\ activeEditor.position \in activeEditorListeners
    /\ ~navigatingInStack

\* The step replaced the entry at index by the entry for `line`.
Replaced(line) ==
    /\ index' = index
    /\ Len(stack') <= Len(stack)
    /\ HasEntry(stack', index')
    /\ stack'[index' + 1] = NewEntry(activeEditor.input, line)

\* The step pushed the entry for `line` after the entry at index, dt
\* milliseconds after the last event.
Pushed(line, dt) ==
    /\ index' = index + 1
    /\ stack' = SubSeq(Elapse(stack, dt), 1, index + 1)
                   \o <<NewEntry(activeEditor.input, line)>>

\* C5: of two consecutive cursor events on the same text document, outside
\* a navigation, the second replaces the current stack entry, the stack not
\* growing, if the start lines differ by less than
\* EDITOR_SELECTION_THRESHOLD, and adds a new entry if they differ by that
\* or more.
C5_CursorThreshold ==
    [][\A line \in Lines, dt \in Delays :
          (/\ lastCall.op = "cursor"
           /\ Listening
           /\ CursorPositionChanged(line, "keyboard", dt))
          => IF Abs(currentTextEditorState.selection - line)
                   < EDITOR_SELECTION_THRESHOLD
             THEN Replaced(line)
             ELSE Pushed(line, dt)]_vars

\* C5, amended: of two consecutive cursor events of the user on the same
\* text document, outside a navigation, the second replaces the current
\* stack entry if the start lines differ by less than
\* EDITOR_SELECTION_THRESHOLD; if they differ by that or more it adds a new
\* entry when it comes MERGE_EVENT_CHANGES_THRESHOLD milliseconds or more
\* after the first, and replaces the current entry when it comes sooner.
C5_CursorThresholdOrMerge ==
    [][\A line \in Lines, dt \in Delays :
          (/\ lastCall.op = "cursor"
           /\ Listening
           /\ CursorPositionChanged(line, "keyboard", dt))
          => IF Abs(currentTextEditorState.selection - line)
                   < EDITOR_SELECTION_THRESHOLD
             THEN Replaced(line)
             ELSE IF dt >= MERGE_EVENT_CHANGES_THRESHOLD
             THEN Pushed(line, dt)
             ELSE Replaced(line)]_vars

\* Two cursor events of the user in a row, from line 100 to line 105: the
\* entry at index has been replaced and the stack is as long as it was.
C5_Witness ==
    /\ lastCall.op = "cursor"
    /\ lastCall.after = "cursor"
    /\ lastCall.source = "keyboard"
    /\ lastCall.selection = 100
    /\ ~navigatingInStack
    /\ index = lastCall.from
    /\ Len(stack) = lastCall.length
    /\ index > -1
    /\ stack[index + 1].selection = 105

C7_NoAdjacentDuplicates ==
    \A k \in 1 .. Len(stack) - 1 :
        ~(/\ matches(stack[k].input, stack[k + 1].input)
          /\ sameSelection(stack[k].selection, stack[k + 1].selection))

\* The history holds no two entries of the same document.
NoDuplicates(hist) == Cardinality({hist[k] : k \in DOMAIN hist}) = Len(hist)

\* The history holds an entry of input i.
InHistory(hist, i) == \E k \in DOMAIN hist : matches(EditorInput(i), hist[k])

\* C8: the history never holds two entries of the same document nor more
\* than MAX_HISTORY_ITEMS entries, and recording the activation of a
\* document that is in the history leaves its length unchanged and puts the
\* document at the front.
C8_RecencyList ==
    [][/\ NoDuplicates(history')
       /\ Len(history') <= MAX_HISTORY_ITEMS
       /\ (lastCall'.op = "editors" /\ InHistory(LoadedHistory, activeEditor'.input))
          => /\ Len(history') = Len(LoadedHistory)
             /\ matches(EditorInput(activeEditor'.input), history'[1])]_vars

\* The host has opened more than MAX_HISTORY_ITEMS files and has gone back
\* to the oldest file of the full history: it is at the front, before the
\* file opened last, and the history is as long as it was.
C8_Witness ==
    /\ lastCall.op = "editors"
    /\ lastCall.history = MAX_HISTORY_ITEMS
    /\ Len(history) = MAX_HISTORY_ITEMS
    /\ history[2].resource > MAX_HISTORY_ITEMS
    /\ history[1].resource = history[2].resource + 1 - MAX_HISTORY_ITEMS
    /\ history[1] = ResourceInput(toResource(activeEditor.input))

\* The history holds no resource the resource filter matches.
NoneExcluded(hist, filter) ==
    \A k \in DOMAIN hist :
        hist[k].kind = "IResourceInput" => hist[k].resource \notin filter

\* C9: the activation of a document the resource filter excludes is not
\* recorded; the history holds no resource entry the filter matches.
C9_NoExcludedInHistory == NoneExcluded(history, excluded)

\* C10: a change of the exclusions removes from the history every entry
\* that is now excluded, adds none, and leaves stack, index and lastIndex
\* unchanged.
C10_ExcludesChange ==
    [][\A filter \in SUBSET Resources :
          ExcludesChange(filter)
          => /\ NoneExcluded(history', filter)
             /\ \A k \in DOMAIN history' : \E j \in DOMAIN LoadedHistory :
                   history'[k] = LoadedHistory[j]
             /\ Len(history') <= Len(LoadedHistory)
             /\ UNCHANGED <<stack, index, lastIndex>>]_vars

\* A change of the exclusions to file 1 has found a history of two entries
\* with a stack of two and has left the history without the entry of file
\* 1 and the stack as it was.
C10_Witness ==
    /\ lastCall.op = "excludes"
    /\ lastCall.history = 2
    /\ excluded = {1}
    /\ history = <<ResourceInput(2)>>
    /\ Len(stack) = 2
    /\ index = 1

\* The file a document reference is backed by.
FileOf(ref) ==
    IF ref.kind = "EditorInput" THEN toResource(ref.input) ELSE ref.resource

\* The document reference is of the document x, or of a file the deletion
\* event x reports.
SameDocument(x, ref) ==
    IF x.kind = "FileChangesEvent"
    THEN FileOf(ref) # NoResource /\ FileOf(ref) \in x.deleted
    ELSE \/ /\ x.kind = "EditorInput"
             /\ ref.kind = "EditorInput"
             /\ x.input # Null
             /\ x.input = ref.input
         \/ FileOf(x) # NoResource /\ FileOf(x) = FileOf(ref)

\* The entries of a stack without their timestamps.
Entries(st) ==
    [k \in DOMAIN st |-> [input |-> st[k].input, selection |-> st[k].selection]]

\* No collection holds an entry of x.
AbsentEverywhere(x) ==
    /\ \A k \in DOMAIN stack : ~SameDocument(x, stack[k].input)
    /\ \A k \in DOMAIN LoadedHistory : ~SameDocument(x, LoadedHistory[k])
    /\ \A k \in DOMAIN recentlyClosedFiles :
          ~SameDocument(x, ResourceInput(recentlyClosedFiles[k].resource))

\* C11: remove(x), for x a document or a deletion event that no collection
\* holds an entry of, changes nothing (the stack, index, lastIndex, the
\* history and the closed files stay as they are) and raises no error.
C11_RemoveAbsentNoOp ==
    [][\A x \in RemoveArgs \cup DeletionEvents :
          (Remove(x) /\ AbsentEverywhere(x))
          => /\ errors' = "none"
             /\ Entries(stack') = Entries(stack)
             /\ index' = index
             /\ lastIndex' = lastIndex
             /\ history' = LoadedHistory
             /\ recentlyClosedFiles' = recentlyClosedFiles]_vars

\* C12: after remove(x) has returned, no stack entry, no history entry and
\* no closed file is of x, x being a document or a deletion event (an entry
\* is of a deletion event when its file is among the deleted ones), and the
\* entries that are not of x are kept in their order.
C12_RemoveMatching ==
    [][\A x \in RemoveArgs \cup DeletionEvents :
          (Remove(x) /\ errors' = "none")
          => LET NotOfX(ref) == ~SameDocument(x, ref)
                 EntryNotOfX(e) == NotOfX(e.input)
                 FileNotOfX(e) == NotOfX(ResourceInput(e.resource))
             IN  /\ stack' = SelectSeq(stack, EntryNotOfX)
                 /\ history' = SelectSeq(LoadedHistory, NotOfX)
                 /\ recentlyClosedFiles' = SelectSeq(recentlyClosedFiles, FileNotOfX)
                 /\ \A k \in DOMAIN stack' : NotOfX(stack'[k].input)
                 /\ \A k \in DOMAIN history' : NotOfX(history'[k])
                 /\ \A k \in DOMAIN recentlyClosedFiles' :
                       FileNotOfX(recentlyClosedFiles'[k])]_vars

\* remove has found a stack of three and has left the one entry that is of
\* another document, file 2, which the history and the closed files still
\* hold as well.
C12_Witness ==
    /\ lastCall.op = "remove"
    /\ lastCall.length = MaxRemoveLen
    /\ Entries(stack) = <<[input |-> ResourceInput(2), selection |-> 100]>>
    /\ index = 0
    /\ lastIndex = -1
    /\ history = <<ResourceInput(2)>>
    /\ Len(recentlyClosedFiles) = 1
    /\ recentlyClosedFiles[1].resource = 2

\* The resource URIs of the resource descriptors of a history, in order.
ResourceURIs(hist) ==
    LET IsDescriptor(e) == e.kind = "IResourceInput"
        descriptors == SelectSeq(hist, IsDescriptor)
    IN  [k \in DOMAIN descriptors |-> descriptors[k].resource]

\* C16: what save() stores holds resource descriptors only, one for each
\* resource descriptor of the history and none for a resolved input, and
\* the history a fresh service loads from it is, in the same order, the
\* resource URIs of the resource descriptors of the history saved.
C16_SaveLoadRoundTrip ==
    [][/\ (Shutdown /\ loaded)
          => LET uris == ResourceURIs(history)
                 reloaded == loadHistory(storage'.entries)
             IN  /\ storage'.valid
                 /\ Len(storage'.entries) = Len(uris)
                 /\ \A k \in DOMAIN uris :
                       storage'.entries[k] =
                           [resource |-> NullString, resourceJSON |-> toJSON(uris[k])]
                 /\ Len(reloaded) = Len(uris)
                 /\ \A k \in DOMAIN uris : reloaded[k] = ResourceInput(uris[k])
       /\ (GetHistory /\ ~loaded /\ errors' = "none")
          => /\ history' = loadHistory(storage.entries)
             /\ \A k \in DOMAIN history' : history'[k].kind = "IResourceInput"]_vars

\* A fresh service, in which no editor has been active, has loaded the
\* history an earlier session has saved: files 2 and 1, in that order.
C16_Witness ==
    /\ lastCall.op = "getHistory"
    /\ activeEditor = NoEditor
    /\ lastActiveEditor = NoIdentifier
    /\ loaded
    /\ history = <<ResourceInput(2), ResourceInput(1)>>
    /\ Len(storage.entries) = 2

\* C17: when the stored history does not parse, loading it yields an empty
\* history and raises no error: getHistory() returns the empty list and the
\* activation of a document is recorded.
C17_MalformedIsNoHistory ==
    [][(~storage.valid /\ ~loaded)
       => /\ GetHistory => (errors' = "none" /\ loaded' /\ history' = <<>>)
          /\ \A i \in PersistInputs, p \in Positions, dt \in Slow :
                EditorsChanged(i, p, 100, dt)
                => (errors' = "none" /\ loaded'
                    /\ history' = <<preferResourceInput(i)>>)]_vars

\* The step leaves the entries of the stack, index and lastIndex as they are.
StackUntouched ==
    /\ Entries(stack') = Entries(stack)
    /\ index' = index
    /\ lastIndex' = lastIndex

\* C13: while an open request of back, forward or last is outstanding,
\* navigatingInStack is true, also when several navigations overlap, and
\* neither the activation of the editor requested nor a cursor event
\* changes the stack, index or lastIndex.
C13_NavigationGuard ==
    [][/\ pendingOpens' > 0 => navigatingInStack'
       /\ \A i \in StackInputs, p \in Positions, dt \in Slow :
             (/\ pendingOpens > 0
              /\ matches(EditorInput(i), lastOpen.input)
              /\ EditorsChanged(i, p, 100, dt))
             => StackUntouched
       /\ \A line \in StackLines, dt \in Slow :
             (pendingOpens > 0 /\ CursorPositionChanged(line, "keyboard", dt))
             => StackUntouched]_vars

\* The position the last call, a back() or a forward(), has moved index to
\* and has requested the entry of; -1 if the last call was no such move.
MovedTo ==
    IF lastCall.op = "back" /\ lastCall.from > 0 /\ lastCall.from <= lastCall.length
    THEN lastCall.from - 1
    ELSE IF lastCall.op = "forward" /\ lastCall.from >= -1
            /\ lastCall.from + 1 < lastCall.length
    THEN lastCall.from + 1
    ELSE -1

\* C14: when the open request of a navigation fails, navigatingInStack is
\* cleared, the error is reported, and the stack, index and lastIndex stay
\* as they are: a failure right after the navigation leaves index at the
\* entry the navigation moved to.
C14_OpenFailed ==
    [][OpenFailed
       => /\ ~navigatingInStack'
          /\ errors' = "onUnexpectedError"
          /\ UNCHANGED <<stack, index, lastIndex>>
          /\ MovedTo # -1
             => /\ index' = MovedTo
                /\ lastIndex' = lastCall.from
                /\ HasEntry(stack', index')]_vars

\* The open request of a back() from the second of two entries has failed:
\* the error is reported, no navigation is under way, and index is at the
\* first entry, where back() has put it.
C14_Witness ==
    /\ errors = "onUnexpectedError"
    /\ lastCall = NoCall
    /\ ~navigatingInStack
    /\ pendingOpens = 0
    /\ Len(stack) = 2
    /\ index = 0
    /\ lastIndex = 1

\* The document reference is the resolved input i.
Holds(ref, i) == ref.kind = "EditorInput" /\ ref.input = i

\* No entry of the stack or of the history is a disposed resolved input.
NoDisposedInput(st, hist, disposed) ==
    /\ \A k \in DOMAIN st : \A i \in disposed : ~Holds(st[k].input, i)
    /\ \A k \in DOMAIN hist : \A i \in disposed : ~Holds(hist[k], i)

\* C18: when a resolved input that a stack entry holds is disposed, every
\* entry of it is removed from the stack, index becomes stack.length - 1
\* and lastIndex -1; a resolved input the history holds is dropped from it
\* on disposal; no entry of the stack or of the history ever is a disposed
\* resolved input.
C18_DisposedInputRemoved ==
    [][/\ \A i \in Resolved :
             DisposeInput(i)
             => LET EntryOfOther(e) == ~Holds(e.input, i)
                    OfOther(e) == ~Holds(e, i)
                IN  /\ (\E k \in DOMAIN stack : Holds(stack[k].input, i))
                       => /\ stack' = SelectSeq(stack, EntryOfOther)
                          /\ index' = Len(stack') - 1
                          /\ lastIndex' = -1
                    /\ history' = SelectSeq(history, OfOther)
       /\ NoDisposedInput(stack', history', disposedInputs')]_vars

\* The disposal of a resolved input has found a stack of three with two
\* entries of it: the entry of the file is left, index is 0, lastIndex -1,
\* and the history holds the file only.
C18_Witness ==
    /\ lastCall.op = "dispose"
    /\ lastCall.length = 3
    /\ disposedInputs # {}
    /\ Entries(stack) = <<[input |-> ResourceInput(1), selection |-> 100]>>
    /\ index = 0
    /\ lastIndex = -1
    /\ history = <<ResourceInput(1)>>

\* C19: at most one cursor subscription is live at any time, a change of
\* the active editor releases the one of the editor left, and after
\* dispose() of the service no cursor event changes the stack, index or the
\* current text editor state.
C19_CursorSubscriptionReleased ==
    [][/\ Cardinality(activeEditorListeners') <= 1
       /\ \A i \in DisposeInputs, p \in Positions, dt \in Slow :
             (/\ EditorsChanged(i, p, 100, dt)
              /\ toUnbind
              /\ ~matchesEditor(lastActiveEditor, activeEditor'))
             => activeEditorListeners' = IF getCodeEditor(i) THEN {p} ELSE {}
       /\ \A line \in StackLines, dt \in Slow :
             (~toUnbind /\ CursorPositionChanged(line, "keyboard", dt))
             => /\ StackUntouched
                /\ currentTextEditorState' = currentTextEditorState]_vars

\* The positions of the closed files the active group does not hold.
NotOpened(closed, opened) == {k \in DOMAIN closed : closed[k].resource \notin opened}

\* The largest of a non-empty set of positions.
Latest(positions) == CHOOSE k \in positions : \A m \in positions : m <= k

\* C15: reopenLastClosedEditor(), when it returns, has removed the closed
\* files from the most recently closed one down to the first whose file the
\* active group does not hold, and has asked to open exactly that file,
\* pinned, at the tab index recorded for it; if the active group holds every
\* closed file, it has opened nothing and the list of closed files is empty.
C15_ReopenLastClosed ==
    [][\A opened \in SUBSET ClosedResources :
          (ReopenLastClosedEditor(opened) /\ errors' = "none")
          => LET candidates == NotOpened(recentlyClosedFiles, opened)
             IN  IF candidates = {}
                 THEN /\ recentlyClosedFiles' = <<>>
                      /\ lastCall'.op = "reopenNone"
                      /\ lastOpen' = lastOpen
                 ELSE LET k == Latest(candidates)
                      IN  /\ recentlyClosedFiles' = SubSeq(recentlyClosedFiles, 1, k - 1)
                          /\ lastCall'.op = "reopen"
                          /\ lastOpen'.input = ResourceInput(recentlyClosedFiles[k].resource)
                          /\ lastOpen'.options.pinned
                          /\ lastOpen'.options.index = recentlyClosedFiles[k].index]_vars

\* Three files were closed, the last two are open again in the active
\* group: the reopening has skipped them, has asked for file 1 at tab 1 and
\* has left no closed file.
C15_Witness ==
    /\ lastCall.op = "reopen"
    /\ lastCall.length = 3
    /\ recentlyClosedFiles = <<>>
    /\ lastOpen.input = ResourceInput(1)
    /\ lastOpen.options = OpenOptions(FALSE, TRUE, 1)

\* C20: clear(), when it returns, leaves the stack, the history and the
\* closed files empty and index and lastIndex at -1, whatever state it is
\* called in; a getHistory() right after it returns the empty list.
C20_Clear ==
    [][/\ (Clear /\ errors' = "none")
          => /\ stack' = <<>>
             /\ history' = <<>>
             /\ recentlyClosedFiles' = <<>>
             /\ index' = -1
             /\ lastIndex' = -1
       /\ (lastCall.op = "clear" /\ GetHistory)
          => /\ errors' = "none"
             /\ history' = <<>>]_vars

\* clear() has been called after back(), with the open request still
\* outstanding, in a session that had loaded a stored history: it has found
\* two stack entries with index 0 and has left nothing.
C20_Witness ==
    /\ lastCall.op = "clear"
    /\ lastCall.length = 2
    /\ lastCall.from = 0
    /\ navigatingInStack
    /\ Len(storage.entries) = 1
    /\ stack = <<>>
    /\ history = <<>>
    /\ recentlyClosedFiles = <<>>
    /\ index = -1
    /\ lastIndex = -1

\* The positions before (dir = -1) or after (dir = 1) index whose entry is
\* of another document than the entry at index.
OtherDocuments(dir) ==
    {k \in 0 .. Len(stack) - 1 :
        /\ IF dir = 1 THEN k > index ELSE k < index
        /\ ~SameDocument(stack[index + 1].input, stack[k + 1].input)}

\* The step is an across-editors move to position k: index is k, lastIndex
\* the position left, and one open request more is outstanding, for the
\* document of the entry at k and with no selection.
MovedAcrossTo(k) ==
    /\ index' = k
    /\ lastIndex' = index
    /\ stack' = stack
    /\ pendingOpens' = pendingOpens + 1
    /\ lastOpen'.input = stack[k + 1].input
    /\ lastOpen'.selection = NoSelection

\* C21: from an entry of the stack, back(true) moves index to the nearest
\* earlier entry that is of another document than the current entry, and
\* forward(true) to the nearest later one; if there is none in that
\* direction, index, lastIndex and the stack are unchanged and no open
\* request is issued; the open request of the move carries no selection.
C21_AcrossEditors ==
    [][/\ (Back(TRUE) /\ HasEntry(stack, index))
          => IF OtherDocuments(-1) = {}
             THEN UNCHANGED <<stack, index, lastIndex, pendingOpens, lastOpen>>
             ELSE \E k \in OtherDocuments(-1) :
                     /\ \A m \in OtherDocuments(-1) : m <= k
                     /\ MovedAcrossTo(k)
       /\ (Forward(TRUE) /\ HasEntry(stack, index))
          => IF OtherDocuments(1) = {}
             THEN UNCHANGED <<stack, index, lastIndex, pendingOpens, lastOpen>>
             ELSE \E k \in OtherDocuments(1) :
                     /\ \A m \in OtherDocuments(1) : m >= k
                     /\ MovedAcrossTo(k)]_vars

\* back(true) from the last of three entries has skipped the entry next to
\* it, which is of the same document, and has moved to the first entry; the
\* open request is for that entry's document and carries no selection,
\* though the entry has one.
C21_Witness ==
    /\ lastCall.op = "backAcross"
    /\ lastCall.from = 2
    /\ Len(stack) = 3
    /\ index = 0
    /\ lastIndex = 2
    /\ SameDocument(stack[3].input, stack[2].input)
    /\ pendingOpens = 1
    /\ lastOpen.input = stack[1].input
    /\ stack[1].selection # NoSelection
    /\ lastOpen.selection = NoSelection

\* The merge decision of a cursor event at `line` from `source`, dt
\* milliseconds after the last event, is replace: the event does not justify
\* a new push state and replace() is forced, or add() coalesces.
DecidesReplace(line, source, dt) ==
    LET candidate == TextEditorState(activeEditor.input, line)
        push == \/ currentTextEditorState = NullState
                \/ justifiesNewPushState(currentTextEditorState, candidate, source)
    IN  ReplaceDecision(StackState(Elapse(stack, dt), index, lastIndex),
                        activeEditor.input, line, ~push)

\* C22: when the merge decision is replace, only the entry at index is
\* overwritten: the stack is as long as it was, index is where it was, and
\* every other entry, the entries after index included, is what it was.
C22_ReplaceInPlace ==
    [][\A line \in Lines, source \in Sources, dt \in Delays :
          (/\ Listening
           /\ CursorPositionChanged(line, source, dt)
           /\ DecidesReplace(line, source, dt))
          => /\ Len(stack') = Len(stack)
             /\ index' = index
             /\ \A k \in 1 .. Len(stack) :
                    k # index + 1 => Entries(stack')[k] = Entries(stack)[k]]_vars

\* C23: in every reachable state lastIndex is -1 or a position of the stack
\* (0 <= lastIndex < stack.length), so that last() jumps to an entry.
C23_LastIndexValid ==
    lastIndex = -1 \/ (0 <= lastIndex /\ lastIndex < Len(stack))

\* C24: stack recording is never frozen for good.  Open requests being
\* settled eventually, navigatingInStack, once true, eventually becomes
\* false; whenever no open request is outstanding navigatingInStack is
\* false; and an add called while no open request is outstanding is
\* recorded: its entry is in the stack.
C24_RecordingResumes ==
    /\ navigatingInStack ~> ~navigatingInStack
    /\ [](pendingOpens = 0 => ~navigatingInStack)
    /\ [][\A i \in StackInputs, dt \in Slow :
             (Add(i, 100, dt) /\ pendingOpens = 0)
             => \E k \in 1 .. Len(stack') : stack'[k] = NewEntry(i, 100)]_vars

\* After a back() from the second of two entries and the settling of its
\* open request, an add has been recorded: no request is outstanding,
\* navigatingInStack is false, and the entry at index is the one just
\* written.
C24_Witness ==
    /\ lastCall.op = "add"
    /\ lastCall.from = 0
    /\ lastCall.length = 2
    /\ pendingOpens = 0
    /\ ~navigatingInStack
    /\ HasEntry(stack, index)
    /\ stack[index + 1].age = 0

====
